---- MODULE Spec2Model ----
(***************************************************************************)
(* rebox: the artifact acquisition pipeline of src/src/util.rs and the     *)
(* cache set-up of src/src/main.rs, as a state machine over the cache      *)
(* directory.                                                              *)
(*                                                                         *)
(* A file's content is a sequence of bytes; SHA-256 is replaced by an      *)
(* injective stand-in on the bounded contents, formatted to 64 lowercase   *)
(* hex digits exactly as format!("{:x}") does.  The HTTP server, local     *)
(* I/O errors and process termination are the environment.                 *)
(***************************************************************************)
EXTENDS Integers, Sequences, FiniteSets, TLC

\* ------------------------------------------------------------------ bounds
\* Longest file content / response body, in bytes.
MaxLen == 2
\* Number of sha256_or_download calls the harness of Spec makes.
MaxCalls == 2

\* Length of a hex SHA-256 digest.
HashLen == 64

Byte == {1, 2}

RECURSIVE SeqsUpTo(_)
SeqsUpTo(n) ==
  IF n = 0 THEN {<<>>}
  ELSE LET S == SeqsUpTo(n - 1)
       IN  S \cup {Append(s, b) : s \in {t \in S : Len(t) = n - 1}, b \in Byte}

Contents == SeqsUpTo(MaxLen)

\* ------------------------------------------------------------ the digest
LowerDigits == <<"0","1","2","3","4","5","6","7","8","9","a","b","c","d","e","f">>
UpperDigits == <<"0","1","2","3","4","5","6","7","8","9","A","B","C","D","E","F">>

RECURSIVE Pow16(_)
Pow16(k) == IF k = 0 THEN 1 ELSE 16 * Pow16(k - 1)

\* format!("{:x}", digest): HashLen lowercase hex digits, most significant
\* first, zero padded.
LowerHex(n) ==
  [i \in 1..HashLen |->
     LET k == HashLen - i
     IN  IF k > 6 THEN "0" ELSE LowerDigits[((n \div Pow16(k)) % 16) + 1]]

\* Injective numbering of the bounded contents (bijective base-3 numeral).
RECURSIVE Enc(_)
Enc(data) ==
  IF data = <<>> THEN 0
  ELSE Enc(SubSeq(data, 1, Len(data) - 1)) * (Cardinality(Byte) + 1)
       + data[Len(data)]

\* Sha256::new / update / finalize over the whole stream, then hex.
\* (The digest value is a stand-in for SHA-256: distinct contents get distinct
\* values, and every value has a letter among its hex digits.)
Sha256Table == [d \in Contents |-> LowerHex(Enc(d) * 16 + 10)]
sha256(data) == Sha256Table[data]

\* The same digest written with uppercase hex digits.
ToUpperHex(h) ==
  [i \in DOMAIN h |->
     IF \E j \in 1..16 : LowerDigits[j] = h[i]
     THEN UpperDigits[CHOOSE j \in 1..16 : LowerDigits[j] = h[i]]
     ELSE h[i]]

ToLowerHex(h) ==
  [i \in DOMAIN h |->
     IF \E j \in 1..16 : UpperDigits[j] = h[i]
     THEN LowerDigits[CHOOSE j \in 1..16 : UpperDigits[j] = h[i]]
     ELSE h[i]]

\* `path_sha256 == sha256`: string equality.
HashEq(a, b) == a = b

\* --------------------------------------------------------- the file system
Paths == {"image.zst", "harddrive.partial", "harddrive.img",
          "qemu.tar.xz", "qemu.partial", "qemu", "qemu-system-x86_64"}

Absent == [kind |-> "absent", data |-> <<>>, synced |-> TRUE, entries |-> {}]
File(d, s) == [kind |-> "file", data |-> d, synced |-> s, entries |-> {}]
Dir(es) == [kind |-> "dir", data |-> <<>>, synced |-> TRUE, entries |-> es]

Exists(f) == f.kind # "absent"

\* ------------------------------------------------------------------ state
VARIABLES
  fs,           \* the cache directory: path -> Absent | File | Dir
  pc,           \* position inside sha256_or_download / download_progress
  url,          \* sha256_or_download's argument url
  expected,     \* sha256_or_download's argument sha256
  path,         \* sha256_or_download's argument path
  path_sha256,  \* the local path_sha256 (digest last computed)
  res,          \* download_progress's local res
  result,       \* what sha256_or_download returned
  srv,          \* how the server answers during the current call
  pre,          \* history: fs[path] when the current call started
  net,          \* history: requests issued by the current call
  visited,      \* history: positions the current call went through
  fsErr,        \* history: a local I/O operation failed in the current call
  hist,         \* history: one record per finished call
  mpc,          \* position inside main
  runs,         \* number of runs of main started
  unpacked,     \* number of archive entries extract has unpacked
  shasum_lines, \* main: the lines of SHA256SUM the loop has yet to look at
  image_opt,    \* main: the local image_opt
  exec,         \* the paths whose permissions are 0o555
  events,       \* history: what the current run of main has done
  mpc2,         \* position inside main of a second, concurrent run
  unpacked2     \* number of archive entries the second run has unpacked

vars == <<fs, pc, url, expected, path, path_sha256, res, result, srv, pre,
          net, visited, fsErr, hist, mpc, runs, unpacked, shasum_lines,
          image_opt, exec, events, mpc2, unpacked2>>

\* What belongs to the caller of sha256_or_download.
callerVars == <<hist, mpc, runs, unpacked, shasum_lines, image_opt, exec,
                events, mpc2, unpacked2>>

\* The locals of the harddrive section of main, the permissions, and the
\* second run.
hdVars == <<shasum_lines, image_opt>>
otherVars == <<mpc2, unpacked2>>

sodVars == <<pc, url, expected, path, path_sha256, res, result, srv, pre,
             net, visited, fsErr>>

\* ------------------------------------------------------------- the server
\* head: the answer to the length probe; get: the status of the content
\* request; body: the bytes it serves; cut: how many of them arrive before
\* the transport fails (Len(body): all of them).
\* With get = "err" the body is that of the error response.
ErrorBody == <<1>>

Servers ==
  {[head |-> h, get |-> "err", body |-> <<>>, cut |-> 0] : h \in {"err", "nolen"}}
  \cup {[head |-> "ok", get |-> "err", body |-> ErrorBody, cut |-> Len(ErrorBody)]}
  \cup UNION {{[head |-> "ok", get |-> "ok", body |-> b, cut |-> k] :
                 k \in 0..Len(b)} : b \in Contents}

NoServer == [head |-> "err", get |-> "err", body |-> <<>>, cut |-> 0]

\* --------------------------------------------------------------- results
Ok == [kind |-> "Ok"]
IoErr == [kind |-> "Io"]
NetErr == [kind |-> "Other"]
NoResult == [kind |-> "none"]
Killed == [kind |-> "Killed"]
MismatchErr(u, p, actual, want) ==
  [kind |-> "InvalidData", url |-> u, path |-> p, actual |-> actual,
   expected |-> want]

NoHash == <<>>

\* main.rs:22  let mut image_opt = None
NoImage == [name |-> "none", sha256 |-> <<>>]

\* sha256_or_download(url, sha256, path) is entered with server behaviour s.
Enter(u, h, p, s) ==
  /\ pc' = "sod_exists"
  /\ url' = u
  /\ expected' = h
  /\ path' = p
  /\ srv' = s
  /\ pre' = fs[p]
  /\ path_sha256' = NoHash
  /\ res' = "none"
  /\ result' = NoResult
  /\ net' = <<>>
  /\ visited' = {"sod_exists"}
  /\ fsErr' = FALSE

Goto(l) ==
  /\ pc' = l
  /\ visited' = visited \cup {l}

ReturnWith(r) ==
  /\ Goto("ret")
  /\ result' = r

NetFetches == Cardinality({i \in DOMAIN net : net[i] = "HEAD"})

\* ------------------------------------------------------ sha256_or_download
\* Faulty variant: the cache check is skipped and the download always runs.
SodExistsIgnored ==
  /\ pc = "sod_exists"
  /\ Goto("dl_head")
  /\ UNCHANGED <<fs, url, expected, path, path_sha256, res, result, srv, pre,
                 net, fsErr>>
  /\ UNCHANGED callerVars

\* util.rs:117  if path.exists()
SodExists ==
  /\ pc = "sod_exists"
  /\ IF Exists(fs[path]) THEN Goto("sod_hash1") ELSE Goto("dl_head")
  /\ UNCHANGED <<fs, url, expected, path, path_sha256, res, result, srv, pre,
                 net, fsErr>>
  /\ UNCHANGED callerVars

\* Faulty variant: the comparison is inverted (!= for ==).
SodVerifyExistingInverted ==
  /\ pc = "sod_hash1"
  /\ \/ /\ fsErr' = TRUE
        /\ ReturnWith(IoErr)
        /\ UNCHANGED path_sha256
     \/ /\ path_sha256' = sha256(fs[path].data)
        /\ IF ~HashEq(path_sha256', expected)
           THEN ReturnWith(Ok)
           ELSE Goto("sod_remove1") /\ UNCHANGED result
        /\ UNCHANGED fsErr
  /\ UNCHANGED <<fs, url, expected, path, res, srv, pre, net>>
  /\ UNCHANGED callerVars

\* Faulty variant: a file that exists is accepted without being hashed.
SodVerifyExistingTrusting ==
  /\ pc = "sod_hash1"
  /\ ReturnWith(Ok)
  /\ UNCHANGED <<fs, url, expected, path, path_sha256, res, srv, pre, net,
                 fsErr>>
  /\ UNCHANGED callerVars

\* util.rs:118-122  sha256_progress(&path)?, then the comparison
SodVerifyExisting ==
  /\ pc = "sod_hash1"
  /\ \/ /\ fsErr' = TRUE
        /\ ReturnWith(IoErr)
        /\ UNCHANGED path_sha256
     \/ /\ path_sha256' = sha256(fs[path].data)
        /\ IF HashEq(path_sha256', expected)
           THEN ReturnWith(Ok)
           ELSE Goto("sod_remove1") /\ UNCHANGED result
        /\ UNCHANGED fsErr
  /\ UNCHANGED <<fs, url, expected, path, res, srv, pre, net>>
  /\ UNCHANGED callerVars

\* Faulty variant: the file that does not match is not removed before the download.
SodRemoveExistingSkipped ==
  /\ pc = "sod_remove1"
  /\ Goto("dl_head")
  /\ UNCHANGED <<fs, url, expected, path, path_sha256, res, result, srv, pre,
                 net, fsErr>>
  /\ UNCHANGED callerVars

\* util.rs:123-126  fs::remove_file(&path)? of the file that does not match
SodRemoveExisting ==
  /\ pc = "sod_remove1"
  /\ \/ /\ fsErr' = TRUE
        /\ ReturnWith(IoErr)
        /\ UNCHANGED fs
     \/ /\ fs' = [fs EXCEPT ![path] = Absent]
        /\ Goto("dl_head")
        /\ UNCHANGED <<result, fsErr>>
  /\ UNCHANGED <<url, expected, path, path_sha256, res, srv, pre, net>>
  /\ UNCHANGED callerVars

\* Faulty variant: a missing Content-Length degrades to an unknown length.
DlLengthOptional ==
  /\ pc = "dl_head"
  /\ net' = Append(net, "HEAD")
  /\ IF srv.head \in {"ok", "nolen"}
     THEN Goto("dl_create") /\ UNCHANGED result
     ELSE ReturnWith(NetErr)
  /\ UNCHANGED <<fs, url, expected, path, path_sha256, res, srv, pre, fsErr>>
  /\ UNCHANGED callerVars

\* util.rs:29-31 and 11-21  download_length: the HEAD request, its status,
\* its Content-Length
DlLength ==
  /\ pc = "dl_head"
  /\ net' = Append(net, "HEAD")
  /\ IF srv.head = "ok"
     THEN Goto("dl_create") /\ UNCHANGED result
     ELSE ReturnWith(NetErr)
  /\ UNCHANGED <<fs, url, expected, path, path_sha256, res, srv, pre, fsErr>>
  /\ UNCHANGED callerVars

\* util.rs:33  fs::File::create(&path)?
DlCreate ==
  /\ pc = "dl_create"
  /\ \/ /\ fsErr' = TRUE
        /\ ReturnWith(IoErr)
        /\ UNCHANGED fs
     \/ /\ fs' = [fs EXCEPT ![path] = File(<<>>, FALSE)]
        /\ Goto("dl_get")
        /\ UNCHANGED <<result, fsErr>>
  /\ UNCHANGED <<url, expected, path, path_sha256, res, srv, pre, net>>
  /\ UNCHANGED callerVars

\* Faulty variant: the body is copied whatever the status of the response.
DlGetStatusIgnored ==
  /\ pc = "dl_get"
  /\ net' = Append(net, "GET")
  /\ Goto("dl_copy")
  /\ UNCHANGED <<fs, url, expected, path, path_sha256, res, result, srv, pre,
                 fsErr>>
  /\ UNCHANGED callerVars

\* util.rs:42 and 24  download: the GET request and error_for_status
DlGet ==
  /\ pc = "dl_get"
  /\ net' = Append(net, "GET")
  /\ IF srv.get = "ok"
     THEN Goto("dl_copy") /\ UNCHANGED res
     ELSE Goto("dl_sync") /\ res' = "Err"
  /\ UNCHANGED <<fs, url, expected, path, path_sha256, result, srv, pre, fsErr>>
  /\ UNCHANGED callerVars

\* util.rs:25  resp.copy_to(w): one more byte of the body reaches the file,
\* or the body ends (completely, or by a transport failure)
DlCopy ==
  /\ pc = "dl_copy"
  /\ LET n == Len(fs[path].data)
     IN  IF n < srv.cut
         THEN /\ fs' = [fs EXCEPT ![path] = File(Append(@.data, srv.body[n + 1]), FALSE)]
              /\ UNCHANGED <<pc, visited, res>>
         ELSE /\ res' = IF srv.cut = Len(srv.body) THEN "Ok" ELSE "Err"
              /\ Goto("dl_sync")
              /\ UNCHANGED fs
  /\ UNCHANGED <<url, expected, path, path_sha256, result, srv, pre, net, fsErr>>
  /\ UNCHANGED callerVars

\* util.rs:47-49  f.sync_all()?; res   (and the ? of util.rs:130)
DlSync ==
  /\ pc = "dl_sync"
  /\ \/ /\ fsErr' = TRUE
        /\ ReturnWith(IoErr)
        /\ UNCHANGED fs
     \/ /\ fs' = [fs EXCEPT ![path] = File(@.data, TRUE)]
        /\ IF res = "Ok"
           THEN Goto("sod_hash2") /\ UNCHANGED result
           ELSE ReturnWith(NetErr)
        /\ UNCHANGED fsErr
  /\ UNCHANGED <<url, expected, path, path_sha256, res, srv, pre, net>>
  /\ UNCHANGED callerVars

\* Faulty variant: the downloaded file is accepted without comparing its digest.
SodVerifyFetchedUnchecked ==
  /\ pc = "sod_hash2"
  /\ \/ /\ fsErr' = TRUE
        /\ ReturnWith(IoErr)
        /\ UNCHANGED path_sha256
     \/ /\ path_sha256' = sha256(fs[path].data)
        /\ ReturnWith(Ok)
        /\ UNCHANGED fsErr
  /\ UNCHANGED <<fs, url, expected, path, res, srv, pre, net>>
  /\ UNCHANGED callerVars

\* util.rs:131-134  sha256_progress(&path)? of the downloaded file, then the
\* comparison
SodVerifyFetched ==
  /\ pc = "sod_hash2"
  /\ \/ /\ fsErr' = TRUE
        /\ ReturnWith(IoErr)
        /\ UNCHANGED path_sha256
     \/ /\ path_sha256' = sha256(fs[path].data)
        /\ IF HashEq(path_sha256', expected)
           THEN ReturnWith(Ok)
           ELSE Goto("sod_remove2") /\ UNCHANGED result
        /\ UNCHANGED fsErr
  /\ UNCHANGED <<fs, url, expected, path, res, srv, pre, net>>
  /\ UNCHANGED callerVars

\* Faulty variant: the mismatching download is reported but left in place.
SodRemoveFetchedKept ==
  /\ pc = "sod_remove2"
  /\ ReturnWith(MismatchErr(url, path, path_sha256, expected))
  /\ UNCHANGED <<fs, url, expected, path, path_sha256, res, srv, pre, net,
                 fsErr>>
  /\ UNCHANGED callerVars

\* util.rs:136-140  fs::remove_file(&path)?; Err(InvalidData, message)
SodRemoveFetched ==
  /\ pc = "sod_remove2"
  /\ \/ /\ fsErr' = TRUE
        /\ ReturnWith(IoErr)
        /\ UNCHANGED fs
     \/ /\ fs' = [fs EXCEPT ![path] = Absent]
        /\ ReturnWith(MismatchErr(url, path, path_sha256, expected))
        /\ UNCHANGED fsErr
  /\ UNCHANGED <<url, expected, path, path_sha256, res, srv, pre, net>>
  /\ UNCHANGED callerVars

\* ------------------------------------------- calls of sha256_or_download
\* The artifact (url, expected hash, destination) is fixed for a behaviour;
\* the destination starts absent or holding any content.
\* The artifact's true content, and the ways a caller may write its digest:
\* lowercase hex, uppercase hex, empty, or one character short.
Good == <<1, 2>>

ExpectedHashes ==
  {sha256(Good), ToUpperHex(sha256(Good)), <<>>,
   SubSeq(sha256(Good), 1, HashLen - 1)}

\* What is remembered of a finished call: how it ended ("Ok", "Err" or
\* "Killed"), how many fetches it made, whether it found the destination absent.
CallRecord(r) ==
  [result |-> IF r.kind \in {"Ok", "Killed"} THEN r.kind ELSE "Err",
   fetches |-> NetFetches, absent |-> ~Exists(pre)]

Init ==
  /\ \E p \in {"qemu.tar.xz"}, f \in {Absent} \cup {File(d, TRUE) : d \in Contents} :
       /\ fs = [q \in Paths |-> IF q = p THEN f ELSE Absent]
       /\ path = p
       /\ pre = f
  /\ expected \in ExpectedHashes
  /\ url = "url"
  /\ pc = "idle"
  /\ path_sha256 = NoHash
  /\ res = "none"
  /\ result = NoResult
  /\ srv = NoServer
  /\ net = <<>>
  /\ visited = {}
  /\ fsErr = FALSE
  /\ hist = <<>>
  /\ mpc = "harness"
  /\ runs = 0
  /\ unpacked = 0
  /\ shasum_lines = <<>>
  /\ image_opt = NoImage
  /\ exec = {}
  /\ events = {}
  /\ mpc2 = "none"
  /\ unpacked2 = 0

\* A caller invokes sha256_or_download on the artifact.
Call ==
  /\ mpc = "harness"
  /\ pc = "idle"
  /\ Len(hist) < MaxCalls
  /\ \E s \in Servers : Enter(url, expected, path, s)
  /\ UNCHANGED <<fs, hist, mpc, runs, unpacked>>
  /\ UNCHANGED <<hdVars, exec, events, otherVars>>

\* The caller's frame of a call is gone once it has returned or was killed.
Leave ==
  /\ pc' = "idle"
  /\ path_sha256' = NoHash
  /\ res' = "none"
  /\ srv' = NoServer
  /\ net' = <<>>
  /\ visited' = {}
  /\ fsErr' = FALSE
  /\ result' = NoResult
  /\ pre' = Absent

\* The call returns to its caller.
Return ==
  /\ mpc = "harness"
  /\ pc = "ret"
  /\ Leave
  /\ hist' = Append(hist, CallRecord(result))
  /\ UNCHANGED <<fs, url, expected, path, mpc, runs, unpacked>>
  /\ UNCHANGED <<hdVars, exec, events, otherVars>>

\* The process is terminated in the middle of the call.
Kill ==
  /\ mpc = "harness"
  /\ pc \notin {"idle", "ret"}
  /\ Leave
  /\ hist' = Append(hist, CallRecord(Killed))
  /\ UNCHANGED <<fs, url, expected, path, mpc, runs, unpacked>>
  /\ UNCHANGED <<hdVars, exec, events, otherVars>>

Next ==
  \/ Call
  \/ Return
  \/ Kill
  \/ SodExists
  \/ SodVerifyExisting
  \/ SodRemoveExisting
  \/ DlLength
  \/ DlCreate
  \/ DlGet
  \/ DlCopy
  \/ DlSync
  \/ SodVerifyFetched
  \/ SodRemoveFetched

Spec == Init /\ [][Next]_vars

\* ------------------------------------------------------------------- main
\* Number of times the program is started on the same cache directory.
MaxRuns == 2

\* main.rs:43  qemu_sha256, the digest of the QEMU source archive
QemuSha256 == sha256(Good)

\* The entries tar::Archive::unpack writes for an archive: one per byte.
ArchiveEntries(data) == {data[i] : i \in DOMAIN data}

InitMain ==
  /\ fs = [q \in Paths |-> Absent]
  /\ path = "qemu.tar.xz"
  /\ pre = Absent
  /\ expected = QemuSha256
  /\ url = "qemu_url"
  /\ pc = "idle"
  /\ path_sha256 = NoHash
  /\ res = "none"
  /\ result = NoResult
  /\ srv = NoServer
  /\ net = <<>>
  /\ visited = {}
  /\ fsErr = FALSE
  /\ hist = <<>>
  /\ mpc = "m_qemu_isdir"
  /\ runs = 1
  /\ unpacked = 0
  /\ shasum_lines = <<>>
  /\ image_opt = NoImage
  /\ exec = {}
  /\ events = {}
  /\ mpc2 = "none"
  /\ unpacked2 = 0

\* rename(2) of a directory: the source exists, and the target is absent or
\* an empty directory
RenameDirAllowed(from, to) ==
  /\ fs[from].kind = "dir"
  /\ \/ fs[to].kind = "absent"
     \/ fs[to].kind = "dir" /\ fs[to].entries = {}

\* main.rs:45-46  if !qemu_dir.is_dir()
MainQemuIsDir ==
  /\ mpc = "m_qemu_isdir"
  /\ mpc' = IF fs["qemu"].kind = "dir" THEN "m_done" ELSE "m_download"
  /\ UNCHANGED <<fs, sodVars, hist, runs, unpacked>>
  /\ UNCHANGED <<hdVars, exec, events, otherVars>>

\* main.rs:48-49  util::sha256_or_download(qemu_url, qemu_sha256, &qemu_tar_xz)
MainQemuDownload ==
  /\ mpc = "m_download"
  /\ \E s \in Servers : Enter("qemu_url", QemuSha256, "qemu.tar.xz", s)
  /\ mpc' = "m_download_wait"
  /\ UNCHANGED <<fs, hist, runs, unpacked>>
  /\ UNCHANGED <<hdVars, exec, events, otherVars>>

\* main.rs:49  the ? on its result
MainQemuDownloaded ==
  /\ mpc = "m_download_wait"
  /\ pc = "ret"
  /\ Leave
  /\ mpc' = IF result = Ok THEN "m_partial" ELSE "m_err"
  /\ events' = events \cup {IF result = Ok THEN "qemu_ok" ELSE "qemu_err"}
  /\ UNCHANGED <<fs, url, expected, path, hist, runs, unpacked>>
  /\ UNCHANGED <<hdVars, exec, otherVars>>

\* Faulty variant: a staging directory left by an earlier run is kept.
MainQemuCleanPartialSkipped ==
  /\ mpc = "m_partial"
  /\ mpc' = "m_extract"
  /\ UNCHANGED <<fs, events, sodVars, hist, runs, unpacked>>
  /\ UNCHANGED <<hdVars, exec, otherVars>>

\* main.rs:52-56  if qemu_partial.is_dir() { fs::remove_dir_all(&qemu_partial)? }
\* (a failing remove_dir_all may have removed some entries already)
MainQemuCleanPartial ==
  /\ mpc = "m_partial"
  /\ IF fs["qemu.partial"].kind = "dir"
     THEN \/ /\ fs' = [fs EXCEPT !["qemu.partial"] = Absent]
             /\ mpc' = "m_extract"
             /\ events' = events \cup {"cleaned"}
          \/ /\ \E es \in SUBSET fs["qemu.partial"].entries :
                  fs' = [fs EXCEPT !["qemu.partial"] = Dir(es)]
             /\ mpc' = "m_err"
             /\ UNCHANGED events
     ELSE /\ mpc' = "m_extract"
          /\ UNCHANGED <<fs, events>>
  /\ UNCHANGED <<sodVars, hist, runs, unpacked>>
  /\ UNCHANGED <<hdVars, exec, otherVars>>

\* main.rs:57, util.rs:60-62  fs::metadata(&src)?.len(), fs::File::open(&src)?
ExtractOpen ==
  /\ mpc = "m_extract"
  /\ \/ mpc' = "m_unpack_dir"
     \/ mpc' = "m_err"
  /\ unpacked' = 0
  /\ UNCHANGED <<fs, sodVars, hist, runs>>
  /\ UNCHANGED <<hdVars, exec, events, otherVars>>

\* util.rs:53-55  tar.unpack(dst) creates dst when it does not exist
ExtractCreateDir ==
  /\ mpc = "m_unpack_dir"
  /\ \/ /\ fs' = [fs EXCEPT !["qemu.partial"] =
                    IF @.kind = "dir" THEN @ ELSE Dir({})]
        /\ mpc' = "m_unpack"
     \/ /\ mpc' = "m_err"
        /\ UNCHANGED fs
  /\ UNCHANGED <<sodVars, hist, runs, unpacked>>
  /\ UNCHANGED <<hdVars, exec, events, otherVars>>

\* Faulty variant: an error while unpacking is dropped and main goes on to the rename.
ExtractEntryErrorIgnored ==
  /\ mpc = "m_unpack"
  /\ LET data == fs["qemu.tar.xz"].data
     IN  IF unpacked < Len(data)
         THEN \/ /\ fs["qemu.partial"].kind = "dir"
                 /\ fs' = [fs EXCEPT !["qemu.partial"] =
                             Dir(@.entries \cup {data[unpacked + 1]})]
                 /\ unpacked' = unpacked + 1
                 /\ UNCHANGED mpc
              \/ /\ mpc' = "m_rename"
                 /\ UNCHANGED <<fs, unpacked>>
         ELSE /\ mpc' = "m_rename"
              /\ UNCHANGED <<fs, unpacked>>
  /\ UNCHANGED <<sodVars, hist, runs>>
  /\ UNCHANGED <<hdVars, exec, events, otherVars>>

\* util.rs:55, 69-76 and the ? of main.rs:57  tar.unpack(dst)?: the next entry
\* of the archive is written below dst, or reading, decoding or writing fails,
\* or the archive ends
ExtractEntry ==
  /\ mpc = "m_unpack"
  /\ LET data == fs["qemu.tar.xz"].data
     IN  IF unpacked < Len(data)
         THEN \/ /\ fs["qemu.partial"].kind = "dir"
                 /\ fs' = [fs EXCEPT !["qemu.partial"] =
                             Dir(@.entries \cup {data[unpacked + 1]})]
                 /\ unpacked' = unpacked + 1
                 /\ UNCHANGED mpc
              \/ /\ mpc' = "m_err"
                 /\ UNCHANGED <<fs, unpacked>>
         ELSE /\ mpc' = "m_rename"
              /\ UNCHANGED <<fs, unpacked>>
  /\ UNCHANGED <<sodVars, hist, runs>>
  /\ UNCHANGED <<hdVars, exec, events, otherVars>>

\* main.rs:58  fs::rename(&qemu_partial, &qemu_dir)?
MainQemuRename ==
  /\ mpc = "m_rename"
  /\ \/ /\ RenameDirAllowed("qemu.partial", "qemu")
        /\ fs' = [fs EXCEPT !["qemu"] = fs["qemu.partial"],
                           !["qemu.partial"] = Absent]
        /\ mpc' = "m_done"
     \/ /\ mpc' = "m_err"
        /\ UNCHANGED fs
  /\ UNCHANGED <<sodVars, hist, runs, unpacked>>
  /\ UNCHANGED <<hdVars, exec, events, otherVars>>

MainRunning == mpc \notin {"m_done", "m_err", "m_killed", "harness"}

\* The process is terminated wherever it is.
MainKill ==
  /\ MainRunning
  /\ mpc' = "m_killed"
  /\ Leave
  /\ UNCHANGED <<fs, url, expected, path, hist, runs, unpacked>>
  /\ UNCHANGED <<hdVars, exec, events, otherVars>>

\* The program is started again on the same cache directory.
MainRestart ==
  /\ mpc \in {"m_done", "m_err", "m_killed"}
  /\ runs < MaxRuns
  /\ runs' = runs + 1
  /\ mpc' = "m_qemu_isdir"
  /\ unpacked' = 0
  /\ events' = {}
  /\ UNCHANGED <<fs, sodVars, hist>>
  /\ UNCHANGED <<hdVars, exec, otherVars>>

NextMain ==
  \/ MainQemuIsDir
  \/ MainQemuDownload
  \/ MainQemuDownloaded
  \/ MainQemuCleanPartial
  \/ ExtractOpen
  \/ ExtractCreateDir
  \/ ExtractEntry
  \/ MainQemuRename
  \/ MainKill
  \/ MainRestart
  \/ SodExists
  \/ SodVerifyExisting
  \/ SodRemoveExisting
  \/ DlLength
  \/ DlCreate
  \/ DlGet
  \/ DlCopy
  \/ DlSync
  \/ SodVerifyFetched
  \/ SodRemoveFetched

SpecMain == InitMain /\ [][NextMain]_vars

\* ------------------------------------------------- main: the whole program
\* Longest SHA256SUM, in lines.
MaxLines == 2

\* main.rs:24-25  the digest is line[..64], the name is line[66..]
NameOffset == 66

\* main.rs:26  "redox_demo_x86_64_" and "_harddrive.img.zst"
NamePrefix ==
  <<"r", "e", "d", "o", "x", "_", "d", "e", "m", "o", "_", "x", "8", "6",
    "_", "6", "4", "_">>

NameSuffix ==
  <<"_", "h", "a", "r", "d", "d", "r", "i", "v", "e", ".", "i", "m", "g",
    ".", "z", "s", "t">>

\* name.starts_with(p), name.ends_with(p)
StartsWith(t, p) == Len(t) >= Len(p) /\ SubSeq(t, 1, Len(p)) = p
EndsWith(t, p) ==
  Len(t) >= Len(p) /\ SubSeq(t, Len(t) - Len(p) + 1, Len(t)) = p

\* The name of the demo image, and a name of another shape.
ImageName == NamePrefix \o <<"d">> \o NameSuffix
OtherName == NamePrefix \o <<"l", "i", "v", "e", ".", "i", "s", "o">>

\* Lines a SHA256SUM (or whatever body the server returns for it) may hold:
\* the demo image's line, another file's line, an empty line, and a line that
\* ends within the separator.
LineImage == sha256(Good) \o <<" ", " ">> \o ImageName
LineOther == sha256(Good) \o <<" ", " ">> \o OtherName
LineEmpty == <<>>
LineShort == sha256(Good) \o <<" ">>

ManifestLines == {LineImage, LineOther, LineEmpty, LineShort}

RECURSIVE LinesUpTo(_)
LinesUpTo(n) ==
  IF n = 0 THEN {<<>>}
  ELSE LET S == LinesUpTo(n - 1)
       IN  S \cup {Append(m, l) : m \in {t \in S : Len(t) = n - 1},
                                  l \in ManifestLines}

Manifests == LinesUpTo(MaxLines)

\* zstd::stream::copy_decode: what a compressed stream decodes to (each byte b
\* stands for a run of b bytes b).
RECURSIVE ZstdDecode(_)
ZstdDecode(data) ==
  IF data = <<>> THEN <<>>
  ELSE ZstdDecode(SubSeq(data, 1, Len(data) - 1))
       \o [i \in 1..data[Len(data)] |-> data[Len(data)]]

\* main.rs:1, 65  QEMU_X86_64_SOFTMMU, the embedded binary
QemuBinary == <<2, 1>>

InitProgram ==
  /\ fs = [q \in Paths |-> Absent]
  /\ path = "image.zst"
  /\ pre = Absent
  /\ expected = NoHash
  /\ url = "none"
  /\ pc = "idle"
  /\ path_sha256 = NoHash
  /\ res = "none"
  /\ result = NoResult
  /\ srv = NoServer
  /\ net = <<>>
  /\ visited = {}
  /\ fsErr = FALSE
  /\ hist = <<>>
  /\ mpc = "m_hd_isfile"
  /\ runs = 1
  /\ unpacked = 0
  /\ shasum_lines = <<>>
  /\ image_opt = NoImage
  /\ exec = {}
  /\ events = {}
  /\ mpc2 = "none"
  /\ unpacked2 = 0

\* main.rs:17-18  if !hd_path.is_file()
MainHdIsFile ==
  /\ mpc = "m_hd_isfile"
  /\ mpc' = IF fs["harddrive.img"].kind = "file" THEN "m_qemu_isdir"
            ELSE "m_shasum"
  /\ UNCHANGED <<fs, sodVars, hist, runs, unpacked, hdVars, exec, events,
                 otherVars>>

\* main.rs:19-22  reqwest::blocking::get(shasum_url)?.text()?
MainFetchShasum ==
  /\ mpc = "m_shasum"
  /\ \/ /\ \E m \in Manifests : shasum_lines' = m
        /\ mpc' = "m_lines"
     \/ /\ mpc' = "m_err"
        /\ UNCHANGED shasum_lines
  /\ image_opt' = NoImage
  /\ UNCHANGED <<fs, sodVars, hist, runs, unpacked, exec, events, otherVars>>

\* main.rs:23-29  one turn of `for line in shasum.lines()`: the two slices
\* (each panics when the line is shorter than its offset), then the test of
\* the name
MainShasumLine ==
  /\ mpc = "m_lines"
  /\ shasum_lines # <<>>
  /\ LET line == Head(shasum_lines)
     IN  IF Len(line) < HashLen \/ Len(line) < NameOffset
         THEN /\ mpc' = "m_panic"
              /\ UNCHANGED <<shasum_lines, image_opt>>
         ELSE LET hash == SubSeq(line, 1, HashLen)
                  name == SubSeq(line, NameOffset + 1, Len(line))
              IN  /\ image_opt' =
                       IF StartsWith(name, NamePrefix) /\ EndsWith(name, NameSuffix)
                       THEN [name |-> name, sha256 |-> hash]
                       ELSE image_opt
                  /\ shasum_lines' = Tail(shasum_lines)
                  /\ UNCHANGED mpc
  /\ UNCHANGED <<fs, sodVars, hist, runs, unpacked, exec, events, otherVars>>

\* main.rs:31  image_opt.ok_or("demo harddrive image not found")?
MainImageOpt ==
  /\ mpc = "m_lines"
  /\ shasum_lines = <<>>
  /\ mpc' = IF image_opt = NoImage THEN "m_err" ELSE "m_hd_download"
  /\ UNCHANGED <<fs, sodVars, hist, runs, unpacked, hdVars, exec, events,
                 otherVars>>

\* main.rs:32-35  util::sha256_or_download(&image_url, &image_sha256, &image_path)
MainHdDownload ==
  /\ mpc = "m_hd_download"
  /\ \E s \in Servers : Enter("image_url", image_opt.sha256, "image.zst", s)
  /\ mpc' = "m_hd_download_wait"
  /\ UNCHANGED <<fs, hist, runs, unpacked, hdVars, exec, events, otherVars>>

\* Faulty variant: the result of sha256_or_download is dropped.
MainHdDownloadedUnchecked ==
  /\ mpc = "m_hd_download_wait"
  /\ pc = "ret"
  /\ Leave
  /\ mpc' = "m_zstd_open"
  /\ events' = events \cup {IF result = Ok THEN "image_ok" ELSE "image_err"}
  /\ UNCHANGED <<fs, url, expected, path, hist, runs, unpacked, hdVars, exec,
                 otherVars>>

\* main.rs:35  the ? on its result
MainHdDownloaded ==
  /\ mpc = "m_hd_download_wait"
  /\ pc = "ret"
  /\ Leave
  /\ mpc' = IF result = Ok THEN "m_zstd_open" ELSE "m_err"
  /\ events' = events \cup {IF result = Ok THEN "image_ok" ELSE "image_err"}
  /\ UNCHANGED <<fs, url, expected, path, hist, runs, unpacked, hdVars, exec,
                 otherVars>>

\* main.rs:37-38, util.rs:150-153  fs::metadata(&input)?, File::open(&input)?,
\* File::create(&output)?
ZstdOpen ==
  /\ mpc = "m_zstd_open"
  /\ \/ /\ fs' = [fs EXCEPT !["harddrive.partial"] = File(<<>>, FALSE)]
        /\ mpc' = "m_zstd_copy"
     \/ /\ mpc' = "m_err"
        /\ UNCHANGED fs
  /\ UNCHANGED <<sodVars, hist, runs, unpacked, hdVars, exec, events, otherVars>>

\* util.rs:160-163, 144-147  zstd::stream::copy_decode(r, w): one more decoded
\* byte reaches the output, or reading, decoding or writing fails, or the
\* stream ends; the outcome is kept in res
ZstdCopy ==
  /\ mpc = "m_zstd_copy"
  /\ LET out == ZstdDecode(fs["image.zst"].data)
         n == Len(fs["harddrive.partial"].data)
     IN  IF n < Len(out)
         THEN \/ /\ fs' = [fs EXCEPT !["harddrive.partial"] =
                             File(Append(@.data, out[n + 1]), FALSE)]
                 /\ UNCHANGED mpc
              \/ /\ mpc' = "m_zstd_sync_err"
                 /\ UNCHANGED fs
         ELSE /\ mpc' = "m_zstd_sync_ok"
              /\ UNCHANGED fs
  /\ UNCHANGED <<sodVars, hist, runs, unpacked, hdVars, exec, events, otherVars>>

\* Faulty variant: the outcome of the decompression is dropped after the sync.
ZstdSyncResDropped ==
  /\ mpc \in {"m_zstd_sync_ok", "m_zstd_sync_err"}
  /\ \/ /\ fs' = [fs EXCEPT !["harddrive.partial"] = File(@.data, TRUE)]
        /\ mpc' = "m_hd_rename"
     \/ /\ mpc' = "m_err"
        /\ UNCHANGED fs
  /\ UNCHANGED <<sodVars, hist, runs, unpacked, hdVars, exec, events, otherVars>>

\* util.rs:165-169 and the ? of main.rs:38  w.sync_all()?; res
ZstdSync ==
  /\ mpc \in {"m_zstd_sync_ok", "m_zstd_sync_err"}
  /\ \/ /\ fs' = [fs EXCEPT !["harddrive.partial"] = File(@.data, TRUE)]
        /\ mpc' = IF mpc = "m_zstd_sync_ok" THEN "m_hd_rename" ELSE "m_err"
     \/ /\ mpc' = "m_err"
        /\ UNCHANGED fs
  /\ UNCHANGED <<sodVars, hist, runs, unpacked, hdVars, exec, events, otherVars>>

\* main.rs:39  fs::rename(&hd_partial, &hd_path)?
MainHdRename ==
  /\ mpc = "m_hd_rename"
  /\ \/ /\ fs' = [fs EXCEPT !["harddrive.img"] = fs["harddrive.partial"],
                           !["harddrive.partial"] = Absent]
        /\ mpc' = "m_qemu_isdir"
     \/ /\ mpc' = "m_err"
        /\ UNCHANGED fs
  /\ UNCHANGED <<sodVars, hist, runs, unpacked, hdVars, exec, events, otherVars>>

\* main.rs:61-62  if !qemu_system_x86_64.is_file()   (reached when the QEMU
\* section is done)
MainBinIsFile ==
  /\ mpc = "m_done"
  /\ mpc' = IF fs["qemu-system-x86_64"].kind = "file" THEN "m_spawn"
            ELSE "m_bin_create"
  /\ UNCHANGED <<fs, sodVars, hist, runs, unpacked, hdVars, exec, events,
                 otherVars>>

\* main.rs:64-65  fs::write(&qemu_system_x86_64_partial, ..): File::create of
\* cache_dir.join("qemu-system-x86_64")
MainBinCreate ==
  /\ mpc = "m_bin_create"
  /\ \/ /\ fs' = [fs EXCEPT !["qemu-system-x86_64"] = File(<<>>, FALSE)]
        /\ exec' = exec \ {"qemu-system-x86_64"}
        /\ mpc' = "m_bin_write"
     \/ /\ mpc' = "m_err"
        /\ UNCHANGED <<fs, exec>>
  /\ UNCHANGED <<sodVars, hist, runs, unpacked, hdVars, events, otherVars>>

\* main.rs:65  fs::write: write_all of QEMU_X86_64_SOFTMMU, a byte at a time
MainBinWrite ==
  /\ mpc = "m_bin_write"
  /\ LET n == Len(fs["qemu-system-x86_64"].data)
     IN  IF n < Len(QemuBinary)
         THEN \/ /\ fs' = [fs EXCEPT !["qemu-system-x86_64"] =
                             File(Append(@.data, QemuBinary[n + 1]), FALSE)]
                 /\ UNCHANGED mpc
              \/ /\ mpc' = "m_err"
                 /\ UNCHANGED fs
         ELSE /\ mpc' = "m_bin_chmod"
              /\ UNCHANGED fs
  /\ UNCHANGED <<sodVars, hist, runs, unpacked, hdVars, exec, events, otherVars>>

\* main.rs:67-75  fs::set_permissions(.., from_mode(0o555))?
MainBinChmod ==
  /\ mpc = "m_bin_chmod"
  /\ \/ /\ exec' = exec \cup {"qemu-system-x86_64"}
        /\ mpc' = "m_bin_rename"
     \/ /\ mpc' = "m_err"
        /\ UNCHANGED exec
  /\ UNCHANGED <<fs, sodVars, hist, runs, unpacked, hdVars, events, otherVars>>

\* main.rs:77  fs::rename(&qemu_system_x86_64_partial, &qemu_system_x86_64)?:
\* both are cache_dir.join("qemu-system-x86_64"), the rename changes nothing
MainBinRename ==
  /\ mpc = "m_bin_rename"
  /\ \/ mpc' = "m_spawn"
     \/ mpc' = "m_err"
  /\ UNCHANGED <<fs, sodVars, hist, runs, unpacked, hdVars, exec, events,
                 otherVars>>

\* main.rs:80-126  Command::new(qemu_system_x86_64) .. spawn()
MainSpawn ==
  /\ mpc = "m_spawn"
  /\ mpc' = "m_spawned"
  /\ events' = events \cup {"spawned"}
  /\ UNCHANGED <<fs, sodVars, hist, runs, unpacked, hdVars, exec, otherVars>>

ProgramStopped == mpc \in {"m_err", "m_killed", "m_panic", "m_spawned"}

\* The process is terminated wherever it is.
ProgramKill ==
  /\ ~ProgramStopped
  /\ mpc # "harness"
  /\ mpc' = "m_killed"
  /\ Leave
  /\ UNCHANGED <<fs, url, expected, path, hist, runs, unpacked, hdVars, exec,
                 events, otherVars>>

\* The program is started again on the same cache directory.
ProgramRestart ==
  /\ ProgramStopped
  /\ runs < MaxRuns
  /\ runs' = runs + 1
  /\ mpc' = "m_hd_isfile"
  /\ unpacked' = 0
  /\ shasum_lines' = <<>>
  /\ image_opt' = NoImage
  /\ events' = {}
  /\ UNCHANGED <<fs, sodVars, hist, exec, otherVars>>

NextProgram ==
  \/ MainHdIsFile
  \/ MainFetchShasum
  \/ MainShasumLine
  \/ MainImageOpt
  \/ MainHdDownload
  \/ MainHdDownloaded
  \/ ZstdOpen
  \/ ZstdCopy
  \/ ZstdSync
  \/ MainHdRename
  \/ MainQemuIsDir
  \/ MainQemuDownload
  \/ MainQemuDownloaded
  \/ MainQemuCleanPartial
  \/ ExtractOpen
  \/ ExtractCreateDir
  \/ ExtractEntry
  \/ MainQemuRename
  \/ MainBinIsFile
  \/ MainBinCreate
  \/ MainBinWrite
  \/ MainBinChmod
  \/ MainBinRename
  \/ MainSpawn
  \/ ProgramKill
  \/ ProgramRestart
  \/ SodExists
  \/ SodVerifyExisting
  \/ SodRemoveExisting
  \/ DlLength
  \/ DlCreate
  \/ DlGet
  \/ DlCopy
  \/ DlSync
  \/ SodVerifyFetched
  \/ SodRemoveFetched

SpecProgram == InitProgram /\ [][NextProgram]_vars

\* ------------------------------------- main: two runs on one cache directory
\* Two runs of the QEMU section of main (main.rs:42-59) on the same cache
\* directory, both started with the image unpacked and qemu.tar.xz downloaded
\* and matching, so that sha256_or_download only reads the archive.  The first
\* run is the one above (mpc, unpacked); the second has its own position and
\* entry count (mpc2, unpacked2).
mainVars == <<hist, mpc, runs, unpacked, shasum_lines, image_opt, exec, events>>

InitConc ==
  /\ fs = [q \in Paths |->
             CASE q \in {"image.zst", "qemu.tar.xz"} -> File(Good, TRUE)
               [] q = "harddrive.img" -> File(ZstdDecode(Good), TRUE)
               [] OTHER -> Absent]
  /\ path = "qemu.tar.xz"
  /\ pre = Absent
  /\ expected = QemuSha256
  /\ url = "qemu_url"
  /\ pc = "idle"
  /\ path_sha256 = NoHash
  /\ res = "none"
  /\ result = NoResult
  /\ srv = NoServer
  /\ net = <<>>
  /\ visited = {}
  /\ fsErr = FALSE
  /\ hist = <<>>
  /\ mpc = "m_qemu_isdir"
  /\ runs = 1
  /\ unpacked = 0
  /\ shasum_lines = <<>>
  /\ image_opt = NoImage
  /\ exec = {}
  /\ events = {}
  /\ mpc2 = "m_qemu_isdir"
  /\ unpacked2 = 0

\* main.rs:45-46  if !qemu_dir.is_dir()
OtherQemuIsDir ==
  /\ mpc2 = "m_qemu_isdir"
  /\ mpc2' = IF fs["qemu"].kind = "dir" THEN "m_done" ELSE "m_download"
  /\ UNCHANGED <<fs, sodVars, mainVars, unpacked2>>

\* main.rs:48-51, util.rs:115-123  sha256_or_download on the archive that is
\* there and matches: it is hashed and left as it is; reading it may fail
OtherQemuVerified ==
  /\ mpc2 = "m_download"
  /\ fs["qemu.tar.xz"].kind = "file"
  /\ HashEq(sha256(fs["qemu.tar.xz"].data), QemuSha256)
  /\ \/ mpc2' = "m_partial"
     \/ mpc2' = "m_err"
  /\ UNCHANGED <<fs, sodVars, mainVars, unpacked2>>

\* main.rs:52-56  if qemu_partial.is_dir() { fs::remove_dir_all(&qemu_partial)? }
OtherQemuCleanPartial ==
  /\ mpc2 = "m_partial"
  /\ IF fs["qemu.partial"].kind = "dir"
     THEN \/ /\ fs' = [fs EXCEPT !["qemu.partial"] = Absent]
             /\ mpc2' = "m_extract"
          \/ /\ \E es \in SUBSET fs["qemu.partial"].entries :
                  fs' = [fs EXCEPT !["qemu.partial"] = Dir(es)]
             /\ mpc2' = "m_err"
     ELSE /\ mpc2' = "m_extract"
          /\ UNCHANGED fs
  /\ UNCHANGED <<sodVars, mainVars, unpacked2>>

\* main.rs:57, util.rs:60-62  fs::metadata(&src)?.len(), fs::File::open(&src)?
OtherExtractOpen ==
  /\ mpc2 = "m_extract"
  /\ \/ mpc2' = "m_unpack_dir"
     \/ mpc2' = "m_err"
  /\ unpacked2' = 0
  /\ UNCHANGED <<fs, sodVars, mainVars>>

\* util.rs:53-55  tar.unpack(dst) creates dst when it does not exist
OtherExtractCreateDir ==
  /\ mpc2 = "m_unpack_dir"
  /\ \/ /\ fs' = [fs EXCEPT !["qemu.partial"] =
                    IF @.kind = "dir" THEN @ ELSE Dir({})]
        /\ mpc2' = "m_unpack"
     \/ /\ mpc2' = "m_err"
        /\ UNCHANGED fs
  /\ UNCHANGED <<sodVars, mainVars, unpacked2>>

\* util.rs:55, 69-76 and the ? of main.rs:57  tar.unpack(dst)?
OtherExtractEntry ==
  /\ mpc2 = "m_unpack"
  /\ LET data == fs["qemu.tar.xz"].data
     IN  IF unpacked2 < Len(data)
         THEN \/ /\ fs["qemu.partial"].kind = "dir"
                 /\ fs' = [fs EXCEPT !["qemu.partial"] =
                             Dir(@.entries \cup {data[unpacked2 + 1]})]
                 /\ unpacked2' = unpacked2 + 1
                 /\ UNCHANGED mpc2
              \/ /\ mpc2' = "m_err"
                 /\ UNCHANGED <<fs, unpacked2>>
         ELSE /\ mpc2' = "m_rename"
              /\ UNCHANGED <<fs, unpacked2>>
  /\ UNCHANGED <<sodVars, mainVars>>

\* main.rs:58  fs::rename(&qemu_partial, &qemu_dir)?
OtherQemuRename ==
  /\ mpc2 = "m_rename"
  /\ \/ /\ RenameDirAllowed("qemu.partial", "qemu")
        /\ fs' = [fs EXCEPT !["qemu"] = fs["qemu.partial"],
                           !["qemu.partial"] = Absent]
        /\ mpc2' = "m_done"
     \/ /\ mpc2' = "m_err"
        /\ UNCHANGED fs
  /\ UNCHANGED <<sodVars, mainVars, unpacked2>>

NextConc ==
  \/ MainQemuIsDir
  \/ MainQemuDownload
  \/ SodExists
  \/ SodVerifyExisting
  \/ MainQemuDownloaded
  \/ MainQemuCleanPartial
  \/ ExtractOpen
  \/ ExtractCreateDir
  \/ ExtractEntry
  \/ MainQemuRename
  \/ OtherQemuIsDir
  \/ OtherQemuVerified
  \/ OtherQemuCleanPartial
  \/ OtherExtractOpen
  \/ OtherExtractCreateDir
  \/ OtherExtractEntry
  \/ OtherQemuRename

SpecConc == InitConc /\ [][NextConc]_vars

\* ------------------------------------------------------------ properties
InCall == pc # "idle"

\* The file holds exactly the bytes whose digest the caller expects.
Matches(f) == f.kind = "file" /\ sha256(f.data) = expected

PreMatches == Matches(pre)
PreMismatches == pre.kind = "file" /\ sha256(pre.data) # expected

\* The server answers both requests and serves the expected content whole.
GoodServer ==
  /\ srv.head = "ok"
  /\ srv.get = "ok"
  /\ srv.cut = Len(srv.body)
  /\ sha256(srv.body) = expected

\* C1: throughout a call of sha256_or_download the destination, once it
\* differs from what the call found, is absent or complete with the expected
\* digest (content appears there only by a rename of a verified staging file).
C1_DestinationNeverPartial ==
  InCall => (fs[path] = pre \/ ~Exists(fs[path]) \/ Matches(fs[path]))

\* C2: when a call returns an error after a fetch was started, no file exists
\* at the destination.
C2_FailedFetchLeavesNoFile ==
  (pc = "ret" /\ result # Ok /\ net # <<>>) => ~Exists(fs[path])

\* C3: whenever sha256_or_download returns success, the file at the
\* destination exists and its digest equals the expected hash.
C3_SuccessMeansVerified ==
  (pc = "ret" /\ result = Ok) => Matches(fs[path])

C3_Witness ==
  pc = "ret" /\ result = Ok /\ PreMismatches /\ net # <<>>

\* C4: two calls in succession from an absent destination, the first of which
\* fetched and returned success: one fetch in total, the second call only
\* rehashes the file, leaves it alone and (its read of the file not failing)
\* returns success.
C4_SecondCallOnlyRehashes ==
  (pc = "ret" /\ Len(hist) = 1 /\ hist[1].absent /\ hist[1].result = "Ok")
    => /\ hist[1].fetches + NetFetches = 1
       /\ net = <<>>
       /\ visited = {"sod_exists", "sod_hash1", "ret"}
       /\ fs[path] = pre
       /\ (~fsErr => result = Ok)

C4_Witness ==
  /\ pc = "ret" /\ Len(hist) = 1 /\ hist[1].absent /\ hist[1].result = "Ok"
  /\ hist[1].fetches = 1 /\ result = Ok

\* C5: a call that finds a file with the expected digest issues no request,
\* leaves the file as it is, goes no further than the hash pass and (the read
\* not failing) returns success.
C5_MatchingFileIsNoOp ==
  (InCall /\ PreMatches)
    => /\ net = <<>>
       /\ fs[path] = pre
       /\ visited \subseteq {"sod_exists", "sod_hash1", "ret"}
       /\ (pc = "ret" /\ ~fsErr => result = Ok)

C5_Witness ==
  pc = "ret" /\ PreMatches /\ result = Ok /\ "sod_hash1" \in visited

\* C6: a call that finds a file with another digest, against a server serving
\* the expected content: the bad file is gone before the first request, there
\* is one fetch, and (no local I/O error) the call returns success with the
\* destination holding the expected content.
C6_SelfHealing ==
  (InCall /\ PreMismatches /\ GoodServer)
    => /\ (pc = "dl_head" => ~Exists(fs[path]))
       /\ (net # <<>> => "sod_remove1" \in visited)
       /\ NetFetches <= 1
       /\ (pc = "ret" /\ ~fsErr
             => result = Ok /\ net = <<"HEAD", "GET">> /\ Matches(fs[path]))

C6_Witness ==
  pc = "ret" /\ PreMismatches /\ GoodServer /\ result = Ok /\ NetFetches = 1

\* C7: a call fetches at most once; when the fetched content does not have the
\* expected digest the call, without fetching again, deletes the file and fails
\* with InvalidData carrying the expected digest, the actual digest and the url.
C7_SingleAttempt ==
  InCall
    => /\ NetFetches <= 1
       /\ (pc = "ret" /\ "sod_hash2" \in visited /\ ~fsErr
           /\ sha256(srv.body) # expected
             => /\ result = MismatchErr(url, path, sha256(srv.body), expected)
                /\ ~Exists(fs[path])
                /\ net = <<"HEAD", "GET">>)

C7_Witness ==
  pc = "ret" /\ result.kind = "InvalidData" /\ ~Exists(fs[path])

\* C8: an expected hash that denotes the file's digest in uppercase or mixed
\* case is a match: the cached file is accepted and not deleted.
C8_CaseInsensitiveMatch ==
  (InCall /\ pre.kind = "file" /\ Len(expected) = HashLen
   /\ ToLowerHex(expected) = sha256(pre.data))
    => /\ fs[path] = pre
       /\ (pc = "ret" /\ ~fsErr => result = Ok)

\* C9: with an expected hash that is empty or not 64 characters long the call
\* fails before any I/O: no hash pass, no deletion, no request, no file.
C9_MalformedHashFailsFast ==
  (InCall /\ Len(expected) # HashLen)
    => /\ visited \subseteq {"sod_exists", "ret"}
       /\ net = <<>>
       /\ fs[path] = pre
       /\ (pc = "ret" => result # Ok)

\* C10: the directory qemu is never partially populated: it is absent or holds
\* every entry of the verified archive, whatever was killed or failed; and the
\* rename is reached only with the whole archive unpacked into the staging
\* directory.
C10_ExtractionAtomic ==
  /\ \/ ~Exists(fs["qemu"])
     \/ /\ fs["qemu"].kind = "dir"
        /\ fs["qemu"].entries = ArchiveEntries(Good)
  /\ mpc = "m_rename"
       => /\ unpacked = Len(fs["qemu.tar.xz"].data)
          /\ fs["qemu.partial"] = Dir(ArchiveEntries(fs["qemu.tar.xz"].data))

C10_Witness ==
  /\ mpc \in {"m_killed", "m_err"}
  /\ fs["qemu.partial"].kind = "dir"
  /\ fs["qemu.partial"].entries # {}
  /\ fs["qemu.partial"].entries # ArchiveEntries(Good)
  /\ ~Exists(fs["qemu"])

\* C13: when the length probe fails or the response has no Content-Length,
\* download_progress fails before File::create and before the GET: the call
\* goes no further than the probe and no file is created at the path.
C13_ProbeFailureCreatesNothing ==
  (InCall /\ srv.head # "ok")
    => /\ visited \cap {"dl_create", "dl_get", "dl_copy", "dl_sync",
                        "sod_hash2", "sod_remove2"} = {}
       /\ net \in {<<>>, <<"HEAD">>}
       /\ (net # <<>> => pc = "ret" /\ result = NetErr /\ ~Exists(fs[path]))

C13_Witness ==
  pc = "ret" /\ srv.head = "nolen" /\ net = <<"HEAD">> /\ result = NetErr

\* C14: when the GET returns a non-success status no byte of the response body
\* reaches the file: the copy is never started and the file stays empty.
C14_StatusCheckedBeforeWrite ==
  (InCall /\ srv.get = "err" /\ Len(net) = 2)
    => /\ net = <<"HEAD", "GET">>
       /\ "dl_copy" \notin visited
       /\ fs[path].kind = "file"
       /\ fs[path].data = <<>>
       /\ (pc = "ret" => result \in {NetErr, IoErr})

C14_Witness ==
  /\ pc = "ret" /\ srv.get = "err" /\ srv.body # <<>>
  /\ net = <<"HEAD", "GET">> /\ result = NetErr

\* C17: a call made after a call that was killed, against a server serving the
\* expected content and without local I/O error, returns success with the
\* destination matching; a file with another digest that it finds (such as
\* the truncated file of the interrupted download) is removed and fetched
\* again, once.
C17_RerunAfterKillRecovers ==
  (pc = "ret" /\ hist # <<>> /\ hist[Len(hist)].result = "Killed"
   /\ GoodServer /\ ~fsErr)
    => /\ result = Ok
       /\ Matches(fs[path])
       /\ (PreMismatches => "sod_remove1" \in visited /\ NetFetches = 1)

C17_Witness ==
  /\ pc = "ret" /\ hist # <<>> /\ hist[Len(hist)].result = "Killed"
  /\ hist[Len(hist)].absent /\ hist[Len(hist)].fetches = 1
  /\ GoodServer /\ ~fsErr
  /\ pre.kind = "file" /\ pre.data # <<>> /\ pre.data # srv.body
  /\ result = Ok

\* C18: every extraction starts with the staging directory absent (one left
\* by an earlier run has been deleted), and while unpacking and at the rename
\* the staging directory holds exactly the entries unpacked by this run.
C18_StaleStagingRemoved ==
  /\ mpc \in {"m_extract", "m_unpack_dir"} => ~Exists(fs["qemu.partial"])
  /\ mpc \in {"m_unpack", "m_rename"}
       => fs["qemu.partial"] =
            Dir(ArchiveEntries(SubSeq(fs["qemu.tar.xz"].data, 1, unpacked)))

C18_Witness ==
  /\ mpc = "m_rename"
  /\ "cleaned" \in events
  /\ fs["qemu.partial"] = Dir(ArchiveEntries(Good))


\* ---- C11, C12, C15, C16, C20: the whole program (SpecProgram)
HdImage == ZstdDecode(Good)

ZstdPositions ==
  {"m_zstd_open", "m_zstd_copy", "m_zstd_sync_ok", "m_zstd_sync_err",
   "m_hd_rename"}

ExtractPositions == {"m_partial", "m_extract", "m_unpack_dir", "m_unpack", "m_rename"}

\* C11: whatever fails or is killed during the decompression, harddrive.img
\* is either absent or the complete, synced decoded image; partial data is
\* only ever in harddrive.partial, and the rename is reached only with the
\* staging file completely decoded and synced.
C11_DecompressionAtomic ==
  /\ fs["harddrive.img"] \in {Absent, File(HdImage, TRUE)}
  /\ mpc = "m_hd_rename"
       => fs["harddrive.partial"] = File(ZstdDecode(fs["image.zst"].data), TRUE)

C11_Witness ==
  /\ mpc \in {"m_err", "m_killed"}
  /\ fs["harddrive.partial"].kind = "file"
  /\ fs["harddrive.partial"].data # <<>>
  /\ fs["harddrive.partial"].data # HdImage
  /\ ~Exists(fs["harddrive.img"])

FinalFiles == {"image.zst", "harddrive.img", "qemu.tar.xz", "qemu-system-x86_64"}

\* C12: a file at its final path never holds bytes that were not synced.
C12_SyncedBeforeVisible ==
  \A q \in FinalFiles :
    (fs[q].kind = "file" /\ fs[q].data # <<>>) => fs[q].synced

LineMatches(line) ==
  /\ Len(line) >= NameOffset
  /\ StartsWith(SubSeq(line, NameOffset + 1, Len(line)), NamePrefix)
  /\ EndsWith(SubSeq(line, NameOffset + 1, Len(line)), NameSuffix)

\* C15: the lookup is never aborted by a line while a matching line is still
\* ahead in the manifest.
C15_MatchingLineStillFound ==
  mpc = "m_panic"
    => ~\E i \in DOMAIN shasum_lines : LineMatches(shasum_lines[i])

\* C16: decompression and extraction are only reached in a run in which
\* sha256_or_download returned success for the file they read, and that file
\* then has the expected digest.
C16_OnlyVerifiedFilesRead ==
  /\ mpc \in ZstdPositions
       => /\ "image_ok" \in events
          /\ "image_err" \notin events
          /\ fs["image.zst"].kind = "file"
          /\ sha256(fs["image.zst"].data) = image_opt.sha256
  /\ mpc \in ExtractPositions
       => /\ "qemu_ok" \in events
          /\ "qemu_err" \notin events
          /\ fs["qemu.tar.xz"].kind = "file"
          /\ sha256(fs["qemu.tar.xz"].data) = QemuSha256

C16_Witness ==
  /\ mpc = "m_unpack"
  /\ {"image_ok", "qemu_ok"} \subseteq events
  /\ fs["harddrive.img"] = File(HdImage, TRUE)

\* C20: the binary that is launched is completely written and executable.
C20_LaunchedBinaryComplete ==
  mpc = "m_spawned"
    => /\ fs["qemu-system-x86_64"].data = QemuBinary
       /\ "qemu-system-x86_64" \in exec


\* ---- C19: two concurrent runs (SpecConc)
QemuPartlyPopulated ==
  /\ fs["qemu"].kind = "dir"
  /\ fs["qemu"].entries # ArchiveEntries(fs["qemu.tar.xz"].data)

BeforeStaging == {"m_qemu_isdir", "m_download", "m_download_wait", "m_partial"}

\* C19: with two runs on one cache directory, qemu can become visible partly
\* populated, and only by interference: it happens only when both runs have
\* gone past the cleanup of qemu.partial, never through a run on its own.
C19_PartialOnlyByInterference ==
  QemuPartlyPopulated => mpc \notin BeforeStaging /\ mpc2 \notin BeforeStaging

C19_Witness ==
  /\ QemuPartlyPopulated
  /\ fs["qemu"].entries # {}
  /\ "cleaned" \in events
  /\ mpc2 = "m_done"

====
